---- MODULE Spec2Model ----
(***************************************************************************)
(* Expense store of src/main.py: one SQLite table `expenses` and the five  *)
(* tool handlers add_expense, list_expenses, edit_expense, delete_expense  *)
(* and summarize.                                                          *)
(*                                                                         *)
(* TEXT values are modelled as sequences of character codes so that the    *)
(* BINARY collation SQLite uses for BETWEEN and ORDER BY is computed, not  *)
(* assumed.  REAL amounts are modelled as integers (exact sums).           *)
(* An Optional[...] argument is a set: {} is None, {v} is the value v.     *)
(***************************************************************************)
EXTENDS Integers, Sequences, FiniteSets, TLC

\* ------------------------------------------------------------------ bounds
\* Largest id the AUTOINCREMENT counter may hand out in the model.
MaxId == 2

\* ------------------------------------------------------------ input values
\* TEXT values, one code per character.
Empty == <<>>
D1 == <<1>>
D12 == <<1, 2>>
D2 == <<2>>
Food == <<6>>
Rent == <<18>>
Groceries == <<7>>
Lunch == <<12>>

\* As TEXT "1" < "12" < "2"; as numbers 1 < 2 < 12.
Dates == {D12, D2}
Subcategories == {Empty, Groceries}

\* SQL NULL: what a Python None bound to a statement parameter stores.  It is
\* no TEXT value (character codes are not negative).
Null == <<-9>>

None == {}
Opt(S) == {None} \cup {{v} : v \in S}
Val(o) == CHOOSE v \in o : TRUE

\* Steps at which the storage layer may raise inside a handler.
WriteFaults == {"none", "open", "execute", "commit", "release"}
ReadFaults == {"none", "open", "execute", "release"}

VARIABLES
  table,   \* rows of the expenses table
  seq,     \* sqlite_sequence.seq of the AUTOINCREMENT key
  call,    \* the last invocation: tool name, arguments, injected fault
  pre,     \* rows of the table when that invocation started
  resp,    \* what the invocation returned
  issued,  \* history: the ids returned by add_expense, in order of return
  acked,   \* history: id -> arguments of an add_expense that returned ok,
           \* until an UPDATE or DELETE with its (date, subcategory) commits
  \* Concurrent invocations (one coroutine per tool call on the event loop):
  pc,      \* invocation -> the await it is suspended at, "done" when returned
  req,     \* invocation -> tool name and arguments
  ans,     \* invocation -> the response it returns
  txn,     \* invocation -> the uncommitted result of its statement
  conns,   \* the open connections, named by the invocation they serve
  made,    \* invocation -> by whom the connection it works on was opened
  wlock,   \* holders of the database file's write (RESERVED) lock
  rlock,   \* holders of a read (SHARED) lock with a cursor still open
  seen,    \* history: invocation in progress -> the clients whose write was
           \* committed since it started
  overlap  \* history: the pairs of invocations, each the latest of its
           \* client, that ran at some time together while no earlier call of
           \* either client committed a write

concVars == <<pc, req, ans, txn, conns, made, wlock, rlock, seen, overlap>>

vars == <<table, seq, call, pre, resp, issued, acked, concVars>>

\* ------------------------------------------------------------- SQL helpers
Min2(a, b) == IF a < b THEN a ELSE b
Max2(a, b) == IF a > b THEN a ELSE b

\* memcmp over the common prefix, then the shorter string first
\* (SQLite BINARY collation on TEXT).
RECURSIVE TextCmp(_, _, _)
TextCmp(a, b, i) ==
  IF i > Min2(Len(a), Len(b))
    THEN (IF Len(a) < Len(b) THEN -1 ELSE IF Len(a) > Len(b) THEN 1 ELSE 0)
    ELSE IF a[i] < b[i] THEN -1
    ELSE IF a[i] > b[i] THEN 1
    ELSE TextCmp(a, b, i + 1)

TextLeq(a, b) == TextCmp(a, b, 1) <= 0

\* Mutant: the lower bound of the range is exclusive.
BetweenExclusive(d, lo, hi) == TextCmp(lo, d, 1) < 0 /\ TextLeq(d, hi)

\* date BETWEEN ? AND ?
Between(d, lo, hi) == TextLeq(lo, d) /\ TextLeq(d, hi)

\* Mutant: the WHERE clause tests the date alone.
KeyMatchDateOnly(r, date, subcategory) == r.date = date

\* WHERE date = ? and subcategory = ?  (a comparison with NULL is never true)
KeyMatch(r, date, subcategory) ==
  /\ date # Null /\ subcategory # Null
  /\ r.date = date /\ r.subcategory = subcategory

MaxRowid(T) == IF T = {} THEN 0 ELSE CHOOSE m \in {r.id : r \in T} : \A r \in T : r.id <= m

\* Mutant: a key without AUTOINCREMENT, one more than the largest rowid stored.
NextRowidNoSequence(T, s) == MaxRowid(T) + 1

\* INTEGER PRIMARY KEY AUTOINCREMENT: one more than the largest rowid ever used.
NextRowid(T, s) == Max2(s, MaxRowid(T)) + 1

\* ORDER BY id ASC
RECURSIVE OrderById(_)
OrderById(T) ==
  IF T = {} THEN <<>>
  ELSE LET r == CHOOSE x \in T : \A y \in T : x.id <= y.id
       IN <<r>> \o OrderById(T \ {r})

\* SUM(amount)
RECURSIVE SumAmount(_)
SumAmount(T) ==
  IF T = {} THEN 0
  ELSE LET r == CHOOSE x \in T : TRUE
       IN r.amount + SumAmount(T \ {r})

\* GROUP BY category ORDER BY category ASC
RECURSIVE GroupByCategory(_, _)
GroupByCategory(T, cats) ==
  IF cats = {} THEN <<>>
  ELSE LET c == CHOOSE x \in cats : \A y \in cats : TextLeq(x, y)
       IN <<[category |-> c,
             total_amount |-> SumAmount({r \in T : r.category = c})]>>
          \o GroupByCategory(T, cats \ {c})

\* --------------------------------------------------------------- responses
Ok(fields) == [status |-> "ok"] @@ fields
Error == [status |-> "error"]
NoChanges == [status |-> "no changes"]
Rows(s) == [status |-> "rows", rows |-> s]
NoResponse == [status |-> "none"]

\* No tool call is being served.
Idle == [op |-> "idle"]

\* The tool calls the dispatch layer runs at the same time.
Procs == {"a", "b"}

\* No statement of the invocation is waiting for its commit.
NoTxn == [table |-> {}, seq |-> 0]

\* ------------------------------------------------------------------- state
Init ==
  /\ table = {}
  /\ seq = 0
  /\ call = Idle
  /\ pre = {}
  /\ resp = NoResponse
  /\ issued = <<>>
  /\ acked = <<>>
  /\ pc = [p \in Procs |-> "done"]
  /\ req = [p \in Procs |-> Idle]
  /\ ans = [p \in Procs |-> NoResponse]
  /\ txn = [p \in Procs |-> NoTxn]
  /\ conns = {}
  /\ made = [p \in Procs |-> {}]
  /\ wlock = {}
  /\ rlock = {}
  /\ seen = [p \in Procs |-> {}]
  /\ overlap = {}

\* Does the transaction of a call that meets `fault` commit?
Commits(fault) == fault \in {"none", "release"}

\* An UPDATE or DELETE with key (date, subcategory) ends the tracking of the
\* inserts made under that key.
Untouched(a, date, subcategory) ==
  [i \in {j \in DOMAIN a : ~KeyMatch(a[j], date, subcategory)} |-> a[i]]

\* Mutant: subcategory and note are bound in the wrong order.
InsertRowSwapped(id, date, amount, category, subcategory, note) ==
  [id |-> id, date |-> date, amount |-> amount, category |-> category,
   subcategory |-> note, note |-> subcategory]

\* INSERT INTO expenses(date, amount, category, subcategory, note) VALUES (?,?,?,?,?)
InsertRow(id, date, amount, category, subcategory, note) ==
  [id |-> id, date |-> date, amount |-> amount, category |-> category,
   subcategory |-> subcategory, note |-> note]

\* date TEXT NOT NULL, category TEXT NOT NULL: the INSERT raises
\* IntegrityError.  subcategory and note carry DEFAULT '' only.
ViolatesNotNull(row) == row.date = Null \/ row.category = Null

\* add_expense(date, amount, category, subcategory, note)
add_expense(date, amount, category, subcategory, note, fault) ==
  LET id == NextRowid(table, seq)
      row == InsertRow(id, date, amount, category, subcategory, note)
  IN /\ call = Idle
     /\ ViolatesNotNull(row) => fault = "execute"
     /\ id <= MaxId
     /\ call' = [op |-> "add_expense", date |-> date, amount |-> amount,
                 category |-> category, subcategory |-> subcategory,
                 note |-> note, fault |-> fault]
     /\ pre' = table
     /\ table' = IF Commits(fault) THEN table \cup {row} ELSE table
     /\ seq' = IF Commits(fault) THEN id ELSE seq
     /\ resp' = IF fault = "none" THEN Ok([id |-> id]) ELSE Error
     /\ issued' = IF fault = "none" THEN Append(issued, id) ELSE issued
     /\ acked' = IF fault = "none"
                   THEN (id :> [date |-> date, amount |-> amount,
                                category |-> category,
                                subcategory |-> subcategory, note |-> note])
                        @@ acked
                   ELSE acked

\* Mutant: the statement also removes the rows it returns
\* (DELETE ... RETURNING in place of SELECT, committed on exit).
list_expenses_consuming(start_date, end_date, fault) ==
  LET hit == {r \in table : Between(r.date, start_date, end_date)}
  IN /\ call = Idle
     /\ call' = [op |-> "list_expenses", start_date |-> start_date,
                 end_date |-> end_date, fault |-> fault]
     /\ pre' = table
     /\ resp' = IF fault = "none" THEN Rows(OrderById(hit)) ELSE Error
     /\ table' = IF fault \in {"none", "release"} THEN table \ hit ELSE table
     /\ UNCHANGED <<seq, issued, acked>>

\* list_expenses(start_date, end_date)
list_expenses(start_date, end_date, fault) ==
  /\ call = Idle
  /\ call' = [op |-> "list_expenses", start_date |-> start_date,
              end_date |-> end_date, fault |-> fault]
  /\ pre' = table
  /\ resp' = IF fault = "none"
               THEN Rows(OrderById({r \in table : Between(r.date, start_date, end_date)}))
               ELSE Error
  /\ UNCHANGED <<table, seq, issued, acked>>

\* Mutant: `if amount:` instead of `if amount is not None:`, and likewise:
\* a supplied 0 or "" is skipped.
SetFieldsTruthy(r, amount, category, note) ==
  [r EXCEPT !.amount = IF amount # None /\ Val(amount) # 0 THEN Val(amount) ELSE @,
            !.category = IF category # None /\ Val(category) # Empty
                           THEN Val(category) ELSE @,
            !.note = IF note # None /\ Val(note) # Empty THEN Val(note) ELSE @]

\* Mutant: the UPDATE writes all three columns and resets those whose
\* argument is None.
SetFieldsResetting(r, amount, category, note) ==
  [r EXCEPT !.amount = IF amount # None THEN Val(amount) ELSE 0,
            !.category = IF category # None THEN Val(category) ELSE Empty,
            !.note = IF note # None THEN Val(note) ELSE Empty]

\* Mutant: the category value is bound to the subcategory column.
SetFieldsShifted(r, amount, category, note) ==
  [r EXCEPT !.amount = IF amount # None THEN Val(amount) ELSE @,
            !.subcategory = IF category # None THEN Val(category) ELSE @,
            !.note = IF note # None THEN Val(note) ELSE @]

\* SET clause built from the arguments that are not None
SetFields(r, amount, category, note) ==
  [r EXCEPT !.amount = IF amount # None THEN Val(amount) ELSE @,
            !.category = IF category # None THEN Val(category) ELSE @,
            !.note = IF note # None THEN Val(note) ELSE @]

\* Mutant: the fields are collected by truthiness.
NoFieldsTruthy(amount, category, note) ==
  /\ amount \subseteq {0}
  /\ category \subseteq {Empty}
  /\ note \subseteq {Empty}

\* `if not fields`
NoFields(amount, category, note) ==
  amount = None /\ category = None /\ note = None

\* Mutant: only the rows whose values the UPDATE changes are counted.
UpdateRowcountChanged(hit, amount, category, note) ==
  Cardinality({r \in hit : SetFields(r, amount, category, note) # r})

\* cur.rowcount of the UPDATE: the rows the WHERE clause selected
UpdateRowcount(hit, amount, category, note) == Cardinality(hit)

\* Mutant: the signature is (date, subcategory, ...), so the first positional
\* argument is taken as the date.
edit_expense_date_first(subcategory, date, amount, category, note, fault) ==
  LET nofields == NoFields(amount, category, note)
      hit == {r \in table : KeyMatch(r, subcategory, date)}
      committed == ~nofields /\ Commits(fault)
  IN /\ call = Idle
     /\ nofields => fault \in {"none", "open", "release"}
     /\ call' = [op |-> "edit_expense", subcategory |-> subcategory, date |-> date,
                 amount |-> amount, category |-> category, note |-> note,
                 fault |-> fault]
     /\ pre' = table
     /\ table' = IF committed
                   THEN (table \ hit) \cup {SetFields(r, amount, category, note) : r \in hit}
                   ELSE table
     /\ resp' = IF fault # "none" THEN Error
                ELSE IF nofields THEN NoChanges
                ELSE Ok([rows_affected |-> UpdateRowcount(hit, amount, category, note)])
     /\ acked' = IF committed THEN Untouched(acked, subcategory, date) ELSE acked
     /\ UNCHANGED <<seq, issued>>

\* edit_expense(subcategory, date, amount, category, note)
edit_expense(subcategory, date, amount, category, note, fault) ==
  LET nofields == NoFields(amount, category, note)
      hit == {r \in table : KeyMatch(r, date, subcategory)}
      committed == ~nofields /\ Commits(fault)
  IN /\ call = Idle
     \* the early return skips execute and commit
     /\ nofields => fault \in {"none", "open", "release"}
     /\ call' = [op |-> "edit_expense", subcategory |-> subcategory, date |-> date,
                 amount |-> amount, category |-> category, note |-> note,
                 fault |-> fault]
     /\ pre' = table
     /\ table' = IF committed
                   THEN (table \ hit) \cup {SetFields(r, amount, category, note) : r \in hit}
                   ELSE table
     /\ resp' = IF fault # "none" THEN Error
                ELSE IF nofields THEN NoChanges
                ELSE Ok([rows_affected |-> UpdateRowcount(hit, amount, category, note)])
     /\ acked' = IF committed THEN Untouched(acked, date, subcategory) ELSE acked
     /\ UNCHANGED <<seq, issued>>

\* delete_expense(date, subcategory)
delete_expense(date, subcategory, fault) ==
  LET hit == {r \in table : KeyMatch(r, date, subcategory)}
  IN /\ call = Idle
     /\ call' = [op |-> "delete_expense", date |-> date,
                 subcategory |-> subcategory, fault |-> fault]
     /\ pre' = table
     /\ table' = IF Commits(fault) THEN table \ hit ELSE table
     /\ resp' = IF fault = "none" THEN Ok([rows_affected |-> Cardinality(hit)])
                ELSE Error
     /\ acked' = IF Commits(fault) THEN Untouched(acked, date, subcategory) ELSE acked
     /\ UNCHANGED <<seq, issued>>

\* `if category:` -- None and the empty string are both falsy
CategoryFilter(category) == category # None /\ Val(category) # Empty

\* summarize(start_date, end_date, category)
summarize(start_date, end_date, category, fault) ==
  LET inrange == {r \in table : Between(r.date, start_date, end_date)}
      sel == IF CategoryFilter(category)
               THEN {r \in inrange : r.category = Val(category)}
               ELSE inrange
  IN /\ call = Idle
     /\ call' = [op |-> "summarize", start_date |-> start_date,
                 end_date |-> end_date, category |-> category, fault |-> fault]
     /\ pre' = table
     /\ resp' = IF fault = "none"
                  THEN Rows(GroupByCategory(sel, {r.category : r \in sel}))
                  ELSE Error
     /\ UNCHANGED <<table, seq, issued, acked>>

\* The tool surface hands the response to the caller; the server is ready
\* for the next call.
Reply ==
  /\ call # Idle
  /\ call' = Idle
  /\ pre' = {}
  /\ resp' = NoResponse
  /\ UNCHANGED <<table, seq, issued, acked, concVars>>

\* One action per tool; the arguments are drawn from the given sets.
AddExpense(D, A, C, S, N, F) ==
  \E date \in D, amount \in A, category \in C, subcategory \in S,
     note \in N, fault \in F :
    add_expense(date, amount, category, subcategory, note, fault) /\ UNCHANGED concVars

ListExpenses(D, F) ==
  \E start_date \in D, end_date \in D, fault \in F :
    list_expenses(start_date, end_date, fault) /\ UNCHANGED concVars

EditExpense(S, D, A, C, N, F) ==
  \E subcategory \in S, date \in D, amount \in Opt(A), category \in Opt(C),
     note \in Opt(N), fault \in F :
    edit_expense(subcategory, date, amount, category, note, fault) /\ UNCHANGED concVars

DeleteExpense(D, S, F) ==
  \E date \in D, subcategory \in S, fault \in F :
    delete_expense(date, subcategory, fault) /\ UNCHANGED concVars

Summarize(D, C, F) ==
  \E start_date \in D, end_date \in D, category \in Opt(C), fault \in F :
    summarize(start_date, end_date, category, fault) /\ UNCHANGED concVars

NoFault == {"none"}

\* Keyed updates: records are added with truthy field values under every
\* (date, subcategory) key and edited to the falsy ones (0 and "").
Next ==
  \/ AddExpense(Dates, {1}, {Food}, Subcategories, {Lunch}, NoFault)
  \/ ListExpenses(Dates, NoFault)
  \/ EditExpense(Subcategories, Dates, {0}, {Empty}, {Empty}, NoFault)
  \/ DeleteExpense(Dates, Subcategories, NoFault)
  \/ Reply

Spec == Init /\ [][Next]_vars

\* Queries: dates, amounts and categories vary, the key is the date alone.
QueryDates == {D1, D12, D2}

NextQuery ==
  \/ AddExpense(QueryDates, {1, 2}, {Food, Rent}, {Empty}, {Empty}, NoFault)
  \/ ListExpenses(QueryDates, NoFault)
  \/ Summarize(QueryDates, {Empty, Food, Rent}, NoFault)
  \/ DeleteExpense(QueryDates, {Empty}, NoFault)
  \/ Reply

SpecQuery == Init /\ [][NextQuery]_vars

\* The storage layer may raise at any step of any call.
NextFault ==
  \/ AddExpense(Dates, {1}, {Food}, Subcategories, {Empty}, WriteFaults)
  \/ ListExpenses(Dates, ReadFaults)
  \/ EditExpense(Subcategories, Dates, {0}, {}, {}, WriteFaults)
  \/ DeleteExpense(Dates, Subcategories, WriteFaults)
  \/ Summarize(Dates, {Food}, ReadFaults)
  \/ Reply

SpecFault == Init /\ [][NextFault]_vars

\* The scenario of the specification: "2024-01-01", "2024-01-05" and
\* "2024-01-31" ('-' sorts before the digits), amounts in hundredths.
Jan01 == <<2, 0, 2, 4, -1, 0, 1, -1, 0, 1>>
Jan05 == <<2, 0, 2, 4, -1, 0, 1, -1, 0, 5>>
Jan31 == <<2, 0, 2, 4, -1, 0, 1, -1, 3, 1>>

\* The calls of the scenario, in any order and any number of times; the edit
\* passes "groceries" first and "2024-01-05" second.
NextScenario ==
  \/ AddExpense({Jan05}, {4250}, {Food}, {Groceries}, {Empty}, NoFault)
  \/ ListExpenses({Jan01, Jan31}, NoFault)
  \/ Summarize({Jan01, Jan31}, {}, NoFault)
  \/ EditExpense({Groceries}, {Jan05}, {5000}, {}, {}, NoFault)
  \/ DeleteExpense({Jan05}, {Groceries}, NoFault)
  \/ Reply

SpecScenario == Init /\ [][NextScenario]_vars

\* None reaches the parameters of add_expense and the key of edit_expense
\* and delete_expense (the annotations are not enforced by the handlers).
NextNull ==
  \/ AddExpense({D2, Null}, {1}, {Food, Null}, {Groceries, Null}, {Empty, Null},
                {"none", "execute"})
  \/ ListExpenses({D2}, NoFault)
  \/ EditExpense({Groceries, Null}, {D2}, {0}, {}, {Lunch}, NoFault)
  \/ DeleteExpense({D2}, {Groceries, Null}, NoFault)
  \/ Reply

SpecNull == Init /\ [][NextNull]_vars

\* ------------------------------------------------- concurrent invocations
\* The handlers are coroutines: an invocation runs alone between two awaits
\* and any other invocation may run while it is suspended at one.  The awaits
\* are aiosqlite.connect, c.execute, cur.fetchall, c.commit and the exit of
\* `async with`.
seqVars == <<call, pre, resp, issued, acked>>

InFlight == {q \in Procs : pc[q] # "done"}

AddReq(date, amount, category, subcategory, note) ==
  [op |-> "add_expense", date |-> date, amount |-> amount,
   category |-> category, subcategory |-> subcategory, note |-> note]
ListReq(start_date, end_date) ==
  [op |-> "list_expenses", start_date |-> start_date, end_date |-> end_date]
EditReq(subcategory, date, amount, category, note) ==
  [op |-> "edit_expense", subcategory |-> subcategory, date |-> date,
   amount |-> amount, category |-> category, note |-> note]
DeleteReq(date, subcategory) ==
  [op |-> "delete_expense", date |-> date, subcategory |-> subcategory]
SummarizeReq(start_date, end_date, category) ==
  [op |-> "summarize", start_date |-> start_date, end_date |-> end_date,
   category |-> category]

IsWrite(r) == r.op \in {"add_expense", "edit_expense", "delete_expense"}

\* The dispatch layer starts the coroutine of a tool call.
Invoke(p, r) ==
  /\ pc[p] = "done"
  /\ r.op = "add_expense" =>
       seq + Cardinality({q \in InFlight : req[q].op = "add_expense"}) < MaxId
  /\ pc' = [pc EXCEPT ![p] = "connect"]
  /\ req' = [q \in Procs |->
               IF q = p THEN r ELSE req[q]]
  /\ ans' = [ans EXCEPT ![p] = NoResponse]
  /\ overlap' = {pair \in overlap : p \notin pair}
                  \cup {{p, q} : q \in {x \in InFlight : p \notin seen[x]}}
  /\ UNCHANGED <<seen, table, seq, txn, conns, made, wlock, rlock, seqVars>>

\* async with aiosqlite.connect(DB_PATH) as c: a connection of its own.
\* edit_expense returns from inside the block when no field is supplied.
Connect(p) ==
  LET r == req[p]
      early == r.op = "edit_expense" /\ NoFields(r.amount, r.category, r.note)
  IN /\ pc[p] = "connect"
     /\ conns' = conns \cup {p}
     /\ made' = [made EXCEPT ![p] = {p}]
     /\ pc' = [pc EXCEPT ![p] = IF early THEN "close" ELSE "execute"]
     /\ ans' = [ans EXCEPT ![p] = IF early THEN NoChanges ELSE @]
     /\ UNCHANGED <<table, seq, req, txn, wlock, rlock, seen, overlap, seqVars>>

\* Mutant: a write statement does not wait for the write lock.
CanWriteUnlocked(p) == TRUE

\* The INSERT, UPDATE or DELETE opens a transaction on the connection and
\* takes the write lock of the database file; one connection holds it at a
\* time.
CanWrite(p) == wlock \subseteq {p}

\* What the statement of write request r makes of the rows T and the
\* sequence s: the new rows, the new sequence, cur.lastrowid or cur.rowcount.
Statement(r, T, s) ==
  IF r.op = "add_expense"
    THEN LET id == NextRowid(T, s)
         IN [table |-> T \cup {InsertRow(id, r.date, r.amount, r.category,
                                         r.subcategory, r.note)},
             seq |-> id, cur |-> id]
  ELSE LET hit == {x \in T : KeyMatch(x, r.date, r.subcategory)}
       IN IF r.op = "edit_expense"
            THEN [table |-> (T \ hit) \cup
                            {SetFields(x, r.amount, r.category, r.note) : x \in hit},
                  seq |-> s,
                  cur |-> UpdateRowcount(hit, r.amount, r.category, r.note)]
            ELSE [table |-> T \ hit, seq |-> s, cur |-> Cardinality(hit)]

\* await c.execute(...)
Execute(p) ==
  /\ pc[p] = "execute"
  /\ IF IsWrite(req[p])
       THEN /\ CanWrite(p)
            /\ wlock' = wlock \cup {p}
            /\ txn' = [txn EXCEPT ![p] = Statement(req[p], table, seq)]
            /\ pc' = [pc EXCEPT ![p] = "commit"]
            /\ UNCHANGED rlock
       ELSE /\ rlock' = rlock \cup {p}
            /\ pc' = [pc EXCEPT ![p] = "fetch"]
            /\ UNCHANGED <<wlock, txn>>
  /\ UNCHANGED <<table, seq, req, ans, conns, made, seen, overlap, seqVars>>

\* The rows the SELECT of read request r yields.
Select(r, T) ==
  LET inrange == {x \in T : Between(x.date, r.start_date, r.end_date)}
  IN IF r.op = "list_expenses" THEN OrderById(inrange)
     ELSE LET sel == IF CategoryFilter(r.category)
                       THEN {x \in inrange : x.category = Val(r.category)}
                       ELSE inrange
          IN GroupByCategory(sel, {x.category : x \in sel})

\* await cur.fetchall(): the cursor is read to its end and the read lock
\* lapses.  No commit got past the lock since the execute.
Fetch(p) ==
  /\ pc[p] = "fetch"
  /\ ans' = [ans EXCEPT ![p] = Rows(Select(req[p], table))]
  /\ rlock' = rlock \ {p}
  /\ pc' = [pc EXCEPT ![p] = "close"]
  /\ UNCHANGED <<table, seq, req, txn, conns, made, wlock, seen, overlap, seqVars>>

\* await c.commit(): waits until no other connection reads, then the
\* statement's result replaces the file's content in one write.
Commit(p) ==
  /\ pc[p] = "commit"
  /\ rlock \subseteq {p}
  /\ table' = txn[p].table
  /\ seq' = txn[p].seq
  /\ wlock' = wlock \ {p}
  /\ ans' = [ans EXCEPT ![p] =
               IF req[p].op = "add_expense" THEN Ok([id |-> txn[p].cur])
               ELSE Ok([rows_affected |-> txn[p].cur])]
  /\ txn' = [txn EXCEPT ![p] = NoTxn]
  /\ pc' = [pc EXCEPT ![p] = "close"]
  /\ seen' = [q \in Procs |-> IF q \in InFlight \ {p} THEN seen[q] \cup {p}
                               ELSE seen[q]]
  /\ UNCHANGED <<req, conns, made, rlock, overlap, seqVars>>

\* An await raises (cannot open, constraint, "database is locked" after the
\* busy timeout, I/O error): `except Exception` makes the response.  Past the
\* connect the exception first leaves the `async with` block.
Raise(p) ==
  /\ pc[p] \in {"connect", "execute", "fetch", "commit"}
  /\ ans' = [ans EXCEPT ![p] = Error]
  /\ pc' = [pc EXCEPT ![p] = IF pc[p] = "connect" THEN "done" ELSE "close"]
  /\ seen' = [seen EXCEPT ![p] = IF pc[p] = "connect" THEN {} ELSE @]
  /\ UNCHANGED <<table, seq, req, txn, conns, made, wlock, rlock, overlap, seqVars>>

\* Mutant: the early return of edit_expense skips the release.
ReleasedUnlessEarly(p) == IF ans[p] = NoChanges THEN {} ELSE {p}

\* The connections the exit of invocation p's `async with` block closes.
Released(p) == {p}

\* Exit of `async with` (by return, by falling off the block or by an
\* exception): the connection is closed, which rolls back what it has not
\* committed and drops its locks; then the response reaches the caller.  The
\* close itself may raise.
Close(p) ==
  /\ pc[p] = "close"
  /\ conns' = conns \ Released(p)
  /\ made' = [made EXCEPT ![p] = @ \ Released(p)]
  /\ wlock' = wlock \ {p}
  /\ rlock' = rlock \ {p}
  /\ txn' = [txn EXCEPT ![p] = NoTxn]
  /\ \E raised \in BOOLEAN :
       ans' = [ans EXCEPT ![p] = IF raised THEN Error ELSE @]
  /\ pc' = [pc EXCEPT ![p] = "done"]
  /\ seen' = [seen EXCEPT ![p] = {}]
  /\ UNCHANGED <<table, seq, req, overlap, seqVars>>

\* The calls two clients make at the same time: inserts under one key with
\* different amounts, edits of that key (the amount, the note or nothing), a
\* delete of the key and the two queries.
NextConc ==
  \E p \in Procs :
    \/ \E amount \in {1, 2} : Invoke(p, AddReq(D2, amount, Food, Groceries, Empty))
    \/ \E fields \in {<<{2}, None>>, <<None, {Lunch}>>, <<None, None>>} :
         Invoke(p, EditReq(Groceries, D2, fields[1], None, fields[2]))
    \/ Invoke(p, DeleteReq(D2, Groceries))
    \/ Invoke(p, ListReq(D2, D2))
    \/ Invoke(p, SummarizeReq(D2, D2, None))
    \/ Connect(p)
    \/ Execute(p)
    \/ Fetch(p)
    \/ Commit(p)
    \/ Raise(p)
    \/ Close(p)

SpecConc == Init /\ [][NextConc]_vars

\* ================================================================ claims
\* What the claims say, stated without the operators of the model above.

\* a <= b as strings: a is a prefix of b, or a is smaller at the first
\* position where they differ.
StrLeq(a, b) ==
  \/ /\ Len(a) <= Len(b)
     /\ \A i \in 1..Len(a) : a[i] = b[i]
  \/ \E k \in 1..Len(a) :
       /\ k <= Len(b)
       /\ \A i \in 1..(k - 1) : a[i] = b[i]
       /\ a[k] < b[k]

InRange(T, lo, hi) == {r \in T : StrLeq(lo, r.date) /\ StrLeq(r.date, hi)}
Keyed(T, date, subcategory) ==
  {r \in T : r.date = date /\ r.subcategory = subcategory}
Ids(T) == {r.id : r \in T}
Elems(s) == {s[i] : i \in DOMAIN s}

RECURSIVE Total(_)
Total(T) ==
  IF T = {} THEN 0
  ELSE LET r == CHOOSE x \in T : TRUE IN Total(T \ {r}) + r.amount

RECURSIVE TotalOfRows(_)
TotalOfRows(s) ==
  IF s = <<>> THEN 0 ELSE Head(s).total_amount + TotalOfRows(Tail(s))

\* The value a field has after an edit that passes `arg` for it.
Supplied(arg, old) == IF arg = {} THEN old ELSE CHOOSE v \in arg : TRUE

IsCall(op) == call.op = op
EditHasField == call.amount # {} \/ call.category # {} \/ call.note # {}

\* C1: list_expenses returns exactly the records of the store whose date d
\* satisfies start_date <= d <= end_date as strings, in strictly ascending id
\* order, and an empty sequence (not an error) when there is none.
C1_ListRange ==
  IsCall("list_expenses") =>
    /\ resp.status = "rows"
    /\ Elems(resp.rows) = InRange(pre, call.start_date, call.end_date)
    /\ \A i, j \in DOMAIN resp.rows : i < j => resp.rows[i].id < resp.rows[j].id
    /\ InRange(pre, call.start_date, call.end_date) = {} => resp.rows = <<>>

\* Two records come back in id order although the first has the later date,
\* and both sit on a bound of the range.
C1_Witness ==
  /\ IsCall("list_expenses")
  /\ resp.status = "rows"
  /\ Len(resp.rows) = 2
  /\ resp.rows[1].date = call.end_date
  /\ resp.rows[2].date = call.start_date
  /\ resp.rows[1].date # resp.rows[2].date

\* The records summarize is to aggregate when a supplied category (any value
\* that is not None) restricts it.
Selected(T, lo, hi, category) ==
  IF category = {} THEN InRange(T, lo, hi)
  ELSE {r \in InRange(T, lo, hi) : r.category \in category}

\* C2: summarize returns one row per category occurring among the records in
\* range (of the filter category only when one is supplied), each total is
\* the sum of exactly those records' amounts, rows are in ascending category
\* order, the totals add up to the sum over all matching records, and no
\* category without a matching record appears.
C2_SummarizeTotals ==
  IsCall("summarize") =>
    LET sel == Selected(pre, call.start_date, call.end_date, call.category)
    IN /\ resp.status = "rows"
       /\ {x.category : x \in Elems(resp.rows)} = {r.category : r \in sel}
       /\ \A i, j \in DOMAIN resp.rows :
            i < j => /\ StrLeq(resp.rows[i].category, resp.rows[j].category)
                     /\ resp.rows[i].category # resp.rows[j].category
       /\ \A x \in Elems(resp.rows) :
            x.total_amount = Total({r \in sel : r.category = x.category})
       /\ TotalOfRows(resp.rows) = Total(sel)

\* C3: with a category argument supplied, the empty string included, the
\* aggregation covers records of exactly that category and the result has at
\* most one row.
C3_SuppliedCategoryRestricts ==
  (IsCall("summarize") /\ call.category # {}) =>
    /\ resp.status = "rows"
    /\ Len(resp.rows) <= 1
    /\ \A x \in Elems(resp.rows) :
         /\ x.category \in call.category
         /\ x.total_amount =
              Total({r \in InRange(pre, call.start_date, call.end_date) :
                       r.category \in call.category})

\* C4: an edit with at least one field supplied changes, in every record
\* matching (date, subcategory), only the supplied fields (a supplied 0 or ""
\* is written), and leaves every other record entirely unchanged.
C4_EditFrame ==
  (IsCall("edit_expense") /\ EditHasField) =>
    /\ \A r \in pre :
         IF r.date = call.date /\ r.subcategory = call.subcategory
           THEN [id |-> r.id, date |-> r.date, subcategory |-> r.subcategory,
                 amount |-> Supplied(call.amount, r.amount),
                 category |-> Supplied(call.category, r.category),
                 note |-> Supplied(call.note, r.note)] \in table
           ELSE r \in table
    /\ Cardinality(table) = Cardinality(pre)

\* Only category is supplied, as the empty string; a matching record had a
\* non-empty category and keeps its amount and note; another record does not
\* match the key.
C4_Witness ==
  /\ IsCall("edit_expense")
  /\ call.category = {Empty} /\ call.amount = {} /\ call.note = {}
  /\ \E r \in pre : /\ r.date = call.date /\ r.subcategory = call.subcategory
                    /\ r.category # Empty /\ r.note # Empty /\ r.amount # 0
  /\ \E r \in pre : r.subcategory # call.subcategory
  /\ table # pre

\* C5: an edit with amount, category and note all absent returns
\* {status: "no changes"} and leaves the store unchanged, whether or not a
\* record matches; an edit with a field supplied never returns "no changes".
C5_NoChanges ==
  IsCall("edit_expense") =>
    /\ ~EditHasField => (resp = [status |-> "no changes"] /\ table = pre)
    /\ EditHasField => resp.status # "no changes"

\* No field is supplied and a record matches the key.
C5_Witness ==
  /\ IsCall("edit_expense")
  /\ ~EditHasField
  /\ Keyed(pre, call.date, call.subcategory) # {}
  /\ resp.status = "no changes"

\* C6: an edit with a field supplied returns status ok and rows_affected =
\* the number of records whose (date, subcategory) equals the key when it was
\* called; with 0 the store is unchanged.
C6_RowsAffected ==
  (IsCall("edit_expense") /\ EditHasField) =>
    /\ resp.status = "ok"
    /\ resp.rows_affected = Cardinality(Keyed(pre, call.date, call.subcategory))
    /\ resp.rows_affected = 0 => table = pre

\* Two records match; one of them already had the supplied amount.
C6_Witness ==
  /\ IsCall("edit_expense")
  /\ call.amount = {0} /\ call.category = {} /\ call.note = {}
  /\ resp.status = "ok"
  /\ resp.rows_affected = 2
  /\ \E r \in pre : r.amount = 0
  /\ \E r \in pre : r.amount # 0

\* C7: delete removes every record whose date and subcategory both equal the
\* arguments and no other, returns status ok with rows_affected = the number
\* removed, and leaves the remaining records unchanged.
C7_Delete ==
  IsCall("delete_expense") =>
    /\ resp.status = "ok"
    /\ resp.rows_affected = Cardinality(Keyed(pre, call.date, call.subcategory))
    /\ table = pre \ Keyed(pre, call.date, call.subcategory)

\* Two records match the pair and both are removed.
C7_Witness ==
  /\ IsCall("delete_expense")
  /\ resp.status = "ok"
  /\ resp.rows_affected = 2
  /\ Cardinality(pre) = 2
  /\ table = {}

\* C8: stored records have pairwise distinct ids, every add_expense returns
\* an id greater than all ids returned before (none is reused after a
\* delete), and no call changes the id of a record.
C8_Ids ==
  /\ \A r1, r2 \in table : r1.id = r2.id => r1 = r2
  /\ \A i, j \in DOMAIN issued : i < j => issued[i] < issued[j]
  /\ (IsCall("add_expense") /\ resp.status = "ok") =>
       /\ resp.id \notin Ids(pre)
       /\ pre \subseteq table
       /\ Ids(table) = Ids(pre) \cup {resp.id}
  /\ IsCall("edit_expense") =>
       /\ Ids(table) = Ids(pre)
       /\ \A r \in pre : \E r2 \in table :
            r2.id = r.id /\ r2.date = r.date /\ r2.subcategory = r.subcategory
  /\ IsCall("delete_expense") => table \subseteq pre
  /\ (IsCall("list_expenses") \/ IsCall("summarize")) => table = pre

\* The record with id 1 was deleted and the next add_expense returned 2.
C8_Witness ==
  /\ IsCall("add_expense")
  /\ resp.status = "ok"
  /\ issued = <<1, 2>>
  /\ Ids(table) = {2}

\* C9: whenever a call fails at any step (open, execute, commit, release) the
\* caller receives {status: "error"} and the store is the one from before the
\* call.
C9_ErrorLeavesStore ==
  ~IsCall("idle") =>
    /\ call.fault # "none" => resp.status = "error"
    /\ resp.status = "error" => table = pre

\* C10: once add_expense has returned ok with id i the record is committed,
\* and every later list_expenses whose range covers its date returns a record
\* with id i and the inserted field values, as long as no edit or delete with
\* its (date, subcategory) key came in between.
C10_DurableOnReturn ==
  /\ (IsCall("add_expense") /\ resp.status = "ok") =>
       [id |-> resp.id, date |-> call.date, amount |-> call.amount,
        category |-> call.category, subcategory |-> call.subcategory,
        note |-> call.note] \in table
  /\ (IsCall("list_expenses") /\ resp.status = "rows") =>
       \A i \in DOMAIN acked :
         (StrLeq(call.start_date, acked[i].date) /\ StrLeq(acked[i].date, call.end_date))
           => [id |-> i, date |-> acked[i].date, amount |-> acked[i].amount,
               category |-> acked[i].category,
               subcategory |-> acked[i].subcategory,
               note |-> acked[i].note] \in Elems(resp.rows)

\* A list returns two records: one as inserted, the other edited since.
C10_Witness ==
  /\ IsCall("list_expenses")
  /\ resp.status = "rows"
  /\ Len(resp.rows) = 2
  /\ Cardinality(DOMAIN acked) = 1
  /\ \E i \in DOMAIN acked : \E k \in DOMAIN resp.rows : resp.rows[k].id = i

\* C15: list_expenses and summarize never change the store, whether they
\* return rows or an error; records are created only by add_expense, changed
\* only by edit_expense and removed only by delete_expense.
C15_ReadsLeaveStore ==
  /\ (IsCall("list_expenses") \/ IsCall("summarize")) => table = pre
  /\ IsCall("add_expense") => pre \subseteq table
  /\ IsCall("edit_expense") => Ids(table) = Ids(pre)
  /\ IsCall("delete_expense") => table \subseteq pre

\* A list over a non-empty store ends in an error.
C15_Witness ==
  /\ IsCall("list_expenses")
  /\ call.fault = "release"
  /\ resp.status = "error"
  /\ InRange(pre, call.start_date, call.end_date) # {}
  /\ table = pre

\* C16: no edit changes the number of records or any record's id, date or
\* subcategory; for every range the ids list_expenses would return, and for
\* every key the records matching it, are the same before and after an edit.
C16_EditKeepsKeys ==
  IsCall("edit_expense") =>
    /\ Cardinality(table) = Cardinality(pre)
    /\ \A r \in pre : \E r2 \in table :
         r2.id = r.id /\ r2.date = r.date /\ r2.subcategory = r.subcategory
    /\ \A lo \in Dates, hi \in Dates :
         Ids(InRange(table, lo, hi)) = Ids(InRange(pre, lo, hi))
    /\ \A d \in Dates, sc \in Subcategories :
         Ids(Keyed(table, d, sc)) = Ids(Keyed(pre, d, sc))

\* An edit supplying all three fields rewrites two records.
C16_Witness ==
  /\ IsCall("edit_expense")
  /\ call.amount # {} /\ call.category # {} /\ call.note # {}
  /\ resp.status = "ok"
  /\ resp.rows_affected = 2
  /\ \A r \in pre : r \notin table

\* The record of the scenario as inserted, and after its amount is edited.
Inserted(i) ==
  [id |-> i, date |-> Jan05, amount |-> 4250, category |-> Food,
   subcategory |-> Groceries, note |-> Empty]
Edited(i) == [Inserted(i) EXCEPT !.amount = 5000]
January == call.start_date = Jan01 /\ call.end_date = Jan31

\* C13: from an empty store, insert("2024-01-05", 42.50, "food", "groceries",
\* "") returns ok with an integer id; list_range over January returns that
\* one record; summarize returns [{food, 42.50}]; edit("groceries",
\* "2024-01-05", amount=50.0) returns rows_affected 1 and summarize then
\* shows 50.0; delete returns rows_affected 1 and list_range then returns an
\* empty sequence.  Each step is stated on the store the step before it left.
C13_Scenario ==
  /\ (IsCall("add_expense") /\ pre = {}) =>
       /\ resp.status = "ok"
       /\ resp.id \in Nat
       /\ table = {Inserted(resp.id)}
  /\ \A i \in 1..MaxId :
       /\ (IsCall("list_expenses") /\ January /\ pre = {Inserted(i)}) =>
            resp = [status |-> "rows", rows |-> <<Inserted(i)>>]
       /\ (IsCall("summarize") /\ January /\ pre = {Inserted(i)}) =>
            resp = [status |-> "rows",
                    rows |-> <<[category |-> Food, total_amount |-> 4250]>>]
       /\ (IsCall("edit_expense") /\ call.amount = {5000} /\ pre = {Inserted(i)}) =>
            /\ resp = [status |-> "ok", rows_affected |-> 1]
            /\ table = {Edited(i)}
       /\ (IsCall("summarize") /\ January /\ pre = {Edited(i)}) =>
            resp = [status |-> "rows",
                    rows |-> <<[category |-> Food, total_amount |-> 5000]>>]
       /\ (IsCall("delete_expense") /\ pre = {Edited(i)}) =>
            /\ resp = [status |-> "ok", rows_affected |-> 1]
            /\ table = {}
  /\ (IsCall("list_expenses") /\ January /\ pre = {}) =>
       resp = [status |-> "rows", rows |-> <<>>]

\* The delete of the scenario: the only record ever inserted, edited to
\* 50.0, is removed.
C13_Witness ==
  /\ IsCall("delete_expense")
  /\ issued = <<1>>
  /\ pre = {Edited(1)}
  /\ resp.status = "ok"
  /\ resp.rows_affected = 1
  /\ table = {}

\* C12: every stored record has non-null date, amount and category, and its
\* subcategory and note are strings, never null, whatever argument values
\* reach the store.  (Amounts are numbers in every call of the model.)
C12_NoNulls ==
  \A r \in table :
    /\ r.date # Null
    /\ r.category # Null
    /\ r.subcategory # Null
    /\ r.note # Null

\* What the store holds once request r, answered a, has taken effect on the
\* rows T.
EffectOn(T, r, a) ==
  IF r.op = "add_expense"
    THEN T \cup {[id |-> a.id, date |-> r.date, amount |-> r.amount,
                  category |-> r.category, subcategory |-> r.subcategory,
                  note |-> r.note]}
  ELSE IF r.op = "edit_expense"
    THEN (T \ Keyed(T, r.date, r.subcategory))
           \cup {[x EXCEPT !.amount = Supplied(r.amount, @),
                           !.category = Supplied(r.category, @),
                           !.note = Supplied(r.note, @)] :
                 x \in Keyed(T, r.date, r.subcategory)}
  ELSE T \ Keyed(T, r.date, r.subcategory)

Returned(p, op) ==
  pc[p] = "done" /\ req[p].op = op /\ ans[p].status = "ok"

\* C11: under any interleaving of concurrent invocations at their awaits,
\* each operation takes effect atomically: the store changes only in the one
\* step in which one invocation's commit completes, and then by the whole
\* effect of that operation on the store as it is (an insert adds one record
\* with a fresh id and its own values); a query returns the rows of one
\* committed state; and two inserts that have both returned ok hold
\* different ids.
C11_Atomic ==
  [][ /\ table' # table =>
           \E p \in Procs :
             /\ pc[p] = "commit" /\ pc'[p] = "close"
             /\ ans'[p].status = "ok"
             /\ table' = EffectOn(table, req[p], ans'[p])
             /\ req[p].op = "add_expense" =>
                  /\ ans'[p].id \notin Ids(table)
                  /\ Cardinality(table') = Cardinality(table) + 1
      /\ \A p \in Procs :
           (ans'[p] # ans[p] /\ ans'[p].status = "rows") =>
             /\ table' = table
             /\ req[p].op = "list_expenses" =>
                  Elems(ans'[p].rows)
                    = InRange(table, req[p].start_date, req[p].end_date)
             /\ req[p].op = "summarize" =>
                  TotalOfRows(ans'[p].rows)
                    = Total(InRange(table, req[p].start_date, req[p].end_date))
      /\ \A p, q \in Procs :
           (p # q /\ Returned(p, "add_expense")' /\ Returned(q, "add_expense")')
             => ans'[p].id # ans'[q].id
    ]_vars

\* Two inserts ran together, both returned ok, and the store holds each
\* one's amount under the id it was given.
C11_Witness ==
  \E p, q \in Procs :
    /\ p # q /\ {p, q} \in overlap
    /\ Returned(p, "add_expense") /\ Returned(q, "add_expense")
    /\ req[p].amount # req[q].amount
    /\ \E x, y \in table :
         /\ x.id = ans[p].id /\ x.amount = req[p].amount
         /\ y.id = ans[q].id /\ y.amount = req[q].amount

\* C14: an invocation works on a connection it opened itself, no two
\* invocations work on the same one, and once the response has reached the
\* caller (success, "no changes", error) its connection is closed.
C14_ConnectionScope ==
  /\ \A p \in Procs :
       /\ pc[p] = "done" => p \notin conns /\ made[p] = {}
       /\ pc[p] \in {"execute", "fetch", "commit", "close"} =>
            made[p] = {p} /\ p \in conns
  /\ \A p, q \in Procs : p # q => made[p] \cap made[q] = {}
  /\ InFlight = {} => conns = {}

\* One invocation has returned "no changes" and the other an error, both
\* after working on a connection at the same time.
C14_Witness ==
  \E p, q \in Procs :
    /\ p # q /\ {p, q} \in overlap
    /\ pc[p] = "done" /\ ans[p] = NoChanges
    /\ pc[q] = "done" /\ ans[q] = Error
    /\ conns = {}

DisjointFields(e, f) ==
  /\ e.amount = {} \/ f.amount = {}
  /\ e.category = {} \/ f.category = {}
  /\ e.note = {} \/ f.note = {}

Carries(x, e) ==
  /\ x.amount = Supplied(e.amount, x.amount)
  /\ x.category = Supplied(e.category, x.category)
  /\ x.note = Supplied(e.note, x.note)

\* Two edits of one key with disjoint fields ran together (and nothing else
\* wrote meanwhile) and both have returned ok.
ConcurrentEdits(p, q) ==
  /\ p # q /\ {p, q} \in overlap
  /\ Returned(p, "edit_expense") /\ Returned(q, "edit_expense")
  /\ req[p].date = req[q].date /\ req[p].subcategory = req[q].subcategory
  /\ DisjointFields(req[p], req[q])

\* C17: after two concurrent edits of one (date, subcategory) key with
\* disjoint fields have both returned ok, every record under the key carries
\* the values of both, and both report the same rows_affected.
C17_DisjointEdits ==
  \A p, q \in Procs :
    ConcurrentEdits(p, q) =>
      /\ \A x \in Keyed(table, req[p].date, req[p].subcategory) :
           Carries(x, req[p]) /\ Carries(x, req[q])
      /\ ans[p].rows_affected = ans[q].rows_affected

\* Both edits matched the two records of the key, which were inserted
\* without a note.
C17_Witness ==
  \E p, q \in Procs :
    /\ ConcurrentEdits(p, q)
    /\ req[p].amount # {} /\ req[q].note # {}
    /\ ans[p].rows_affected = 2
    /\ \E x \in table : x.id = 1 /\ x.amount = 2 /\ x.note = Lunch
    /\ \E y \in table : y.id = 2 /\ y.amount = 2 /\ y.note = Lunch
====
